---- MODULE Spec2Model ----
(***************************************************************************)
(* Payload adapters of disnake: AppInfo / PartialAppInfo / InstallParams / *)
(* IntegrationTypeConfiguration (disnake/appinfo.py) and ModalInteraction  *)
(* / ModalInteractionData (disnake/interactions/modal.py).                 *)
(*                                                                         *)
(* Conventions.  A Python str that is parsed or formatted as a number is a *)
(* sequence of one-character strings (<<"0","7">> is "07"); every other    *)
(* str is a TLA+ string.  An Optional value is None (<<>>) or Some(v)      *)
(* (<<v>>); a JSON null is None.  A dict is a function whose DOMAIN is the *)
(* set of its keys; a dict whose iteration order matters is a sequence of  *)
(* key/value entries with distinct keys.                                   *)
(***************************************************************************)
EXTENDS Integers, Sequences, FiniteSets, TLC

VARIABLES
    data,      \* payload handed to the AppInfo / PartialAppInfo constructor
    cls,       \* class being constructed: "none", "AppInfo", "PartialAppInfo"
    app,       \* Some(object) once the constructor returned, None otherwise
    raised,    \* exception that left the constructor: "none" or "KeyError"
    warned,    \* number of DeprecationWarnings emitted so far
    reads,     \* values returned by the reads of .summary, in order
    url,       \* None, or Some(result of the last install_params.to_url())
    iturl,     \* integration type k -> result of
               \* integration_types_config[k].install_params.to_url(), once called
    mdata,     \* payload handed to the ModalInteraction constructor
    modal,     \* Some(ModalInteraction) once constructed, None otherwise
    mraised,   \* exception that left that constructor: "none" or "KeyError"
    gens,      \* the generators returned by walk_raw_components(), in call order
    treads,    \* outcomes of the sequential reads of .text_values, in order
    built,     \* number of text-value mappings built so far (object identities)
    writes,    \* number of assignments to the _cs_text_values slot so far
    rd         \* the concurrent readers of .text_values

appVars == <<data, cls, app, raised, warned, reads, url, iturl>>

modalVars == <<mdata, modal, mraised, gens, treads, built, writes, rd>>

vars == <<appVars, modalVars>>

(***************************** bounds *************************************)
\* reads of .summary on one object
MaxReads == 2
\* entries of an integration_types_config payload
MaxItc == 2
\* action rows of a modal payload
MaxRows == 2
\* generators obtained from walk_raw_components() on one object
MaxGens == 2
\* sequential reads of .text_values on one object
MaxTextReads == 2
\* execution contexts reading .text_values concurrently
MaxReaders == 2

(************************* Python primitives ******************************)
None == <<>>
Some(v) == <<v>>

Digits == <<"0", "1", "2", "3", "4", "5", "6", "7", "8", "9">>

DigitVal(c) == (CHOOSE i \in 1..10 : Digits[i] = c) - 1

\* int(s) for a str s of decimal digits
RECURSIVE ParseInt(_)
ParseInt(s) ==
    IF Len(s) = 0 THEN 0
    ELSE 10 * ParseInt(SubSeq(s, 1, Len(s) - 1)) + DigitVal(s[Len(s)])

\* str(n) / f"{n}" for an int n >= 0
RECURSIVE ToDec(_)
ToDec(n) ==
    IF n < 10 THEN <<Digits[n + 1]>>
    ELSE ToDec(n \div 10) \o <<Digits[(n % 10) + 1]>>

\* d.get(k)
Get(d, k) == IF k \in DOMAIN d THEN d[k] ELSE None

\* d.get(k, default)
GetDefault(d, k, default) == IF k \in DOMAIN d THEN d[k] ELSE default

\* truth value of an Optional dict: None and {} are falsy
TruthyDict(o) == o # None /\ DOMAIN o[1] # {}

\* d restricted to the keys in S
Restrict(d, S) == [k \in S |-> d[k]]

\* sep.join(parts), as a sequence of tokens
RECURSIVE Join(_, _)
Join(parts, sep) ==
    IF Len(parts) = 0 THEN <<>>
    ELSE IF Len(parts) = 1 THEN <<parts[1]>>
    ELSE <<parts[1], sep>> \o Join(Tail(parts), sep)

(********************** external collaborators ****************************)
\* Permissions(value): wraps the raw integer
Permissions(value) == [value |-> value]

\* ApplicationFlags._from_value(value)
ApplicationFlags_from_value(value) == [value |-> value]

\* Team(state, payload)
Team(state, payload) == [_state |-> state, payload |-> payload]

\* state.create_user(payload)
create_user(state, payload) == [_state |-> state, payload |-> payload]

\* utils._get_as_snowflake(data, key): `value and int(value)`, None if absent
get_as_snowflake(d, key) ==
    IF key \notin DOMAIN d THEN None
    ELSE IF d[key] = None \/ Len(d[key][1]) = 0 THEN d[key]
    ELSE Some(ParseInt(d[key][1]))

\* utils.oauth_url(client_id, scopes=, permissions=, integration_type=):
\* application id, scopes joined by a fixed delimiter, permission integer
\* and, if known (not MISSING, here None), the integration type
oauth_url(client_id, scopes, permissions, integration_type) ==
    <<"https://discord.com/oauth2/authorize?client_id=">> \o ToDec(client_id)
    \o <<"&scope=">> \o Join(scopes, "+")
    \o <<"&permissions=">> \o ToDec(permissions.value)
    \o (IF integration_type = None THEN <<>>
        ELSE <<"&integration_type=">> \o ToDec(integration_type[1]))

\* utils.warn_deprecated(...): one DeprecationWarning per call, never raised
\* as an error and never deduplicated; the new warning count
warn_deprecated(count) == count + 1

(***************************** InstallParams ******************************)
\* InstallParams.__init__(data, parent, integration_type=None); parent_id is
\* parent.id, integration_type an Optional int
InstallParams_init(d, parent_id, integration_type) ==
    [_app_id |-> parent_id,
     _integration_type |-> integration_type,
     scopes |-> d["scopes"],
     permissions |-> Permissions(ParseInt(d["permissions"]))]

\* a plausible slip: the URL is built with empty permissions instead of
\* self.permissions
InstallParams_to_url_NoPermissions(self) ==
    oauth_url(self._app_id, self.scopes, Permissions(0), self._integration_type)

\* a plausible slip: the integration type is tested for truth, not for None
InstallParams_to_url_Truthy(self) ==
    oauth_url(self._app_id, self.scopes, self.permissions,
              IF self._integration_type # None /\ self._integration_type[1] # 0
              THEN self._integration_type ELSE None)

\* InstallParams.to_url()
InstallParams_to_url(self) ==
    oauth_url(self._app_id, self.scopes, self.permissions, self._integration_type)

(********************* IntegrationTypeConfiguration ***********************)
\* a plausible slip: the sub-payload is looked up under "install_params",
\* the key of the top-level payload
IntegrationTypeConfiguration_init_WrongKey(d, parent_id, integration_type) ==
    [install_params |->
        IF TruthyDict(Get(d, "install_params"))
        THEN Some(InstallParams_init(Get(d, "install_params")[1], parent_id,
                                     Some(integration_type)))
        ELSE None]

\* IntegrationTypeConfiguration.__init__(data, parent=, integration_type=)
IntegrationTypeConfiguration_init(d, parent_id, integration_type) ==
    [install_params |->
        IF TruthyDict(Get(d, "oauth2_install_params"))
        THEN Some(InstallParams_init(Get(d, "oauth2_install_params")[1], parent_id,
                                     Some(integration_type)))
        ELSE None]

(******************************** AppInfo **********************************)
\* a plausible slip: the slug read with data["slug"]
AppInfo_required_SlugSubscripted ==
    {"id", "name", "description", "icon", "rpc_origins", "bot_public",
     "bot_require_code_grant", "owner", "verify_key", "slug"}

\* the keys AppInfo.__init__ reads with data[key]: a missing one raises KeyError
AppInfo_required ==
    {"id", "name", "description", "icon", "rpc_origins", "bot_public",
     "bot_require_code_grant", "owner", "verify_key"}

\* one pass of the loop over integration_types_config.items(): the entries
\* are consumed in order and a later entry overwrites an equal integer key
RECURSIVE integration_types_loop(_, _, _)
integration_types_loop(entries, parent_id, acc) ==
    IF Len(entries) = 0 THEN acc
    ELSE LET integration_type == ParseInt(entries[1].key)
             config == IF TruthyDict(entries[1].value) THEN entries[1].value[1]
                       ELSE <<>>
             entry == IntegrationTypeConfiguration_init(config, parent_id,
                                                        integration_type)
         IN integration_types_loop(Tail(entries), parent_id,
                (integration_type :> entry) @@ acc)

\* a plausible slip: entries whose configuration is null are skipped
AppInfo_integration_types_config_SkipNull(d, parent_id) ==
    LET payload == Get(d, "integration_types_config")
        items == IF payload = None THEN <<>> ELSE payload[1]
    IN integration_types_loop(SelectSeq(items, LAMBDA e : e.value # None),
                              parent_id, <<>>)

\* AppInfo.__init__, the integration_types_config attribute:
\* (data.get("integration_types_config") or {}).items()
AppInfo_integration_types_config(d, parent_id) ==
    LET payload == Get(d, "integration_types_config")
        items == IF payload = None THEN <<>> ELSE payload[1]
    IN integration_types_loop(items, parent_id, <<>>)

\* the attributes AppInfo.__init__ assigns when no subscript raises
AppInfo_attributes(state, d) ==
    LET id == ParseInt(d["id"])
        team == Get(d, "team")
        flags == Get(d, "flags")
    IN [_state |-> state,
       id |-> id,
       name |-> d["name"],
       description |-> d["description"],
       _icon |-> d["icon"],
       rpc_origins |-> d["rpc_origins"],
       bot_public |-> d["bot_public"],
       bot_require_code_grant |-> d["bot_require_code_grant"],
       owner |-> create_user(state, d["owner"]),
       team |-> IF TruthyDict(team) THEN Some(Team(state, team[1]))
                ELSE None,
       _summary |-> GetDefault(d, "summary", ""),
       verify_key |-> d["verify_key"],
       guild_id |-> get_as_snowflake(d, "guild_id"),
       primary_sku_id |-> get_as_snowflake(d, "primary_sku_id"),
       slug |-> Get(d, "slug"),
       _cover_image |-> Get(d, "cover_image"),
       terms_of_service_url |-> Get(d, "terms_of_service_url"),
       privacy_policy_url |-> Get(d, "privacy_policy_url"),
       flags |-> IF flags # None
                 THEN Some(ApplicationFlags_from_value(flags[1]))
                 ELSE None,
       tags |-> Get(d, "tags"),
       install_params |->
           IF "install_params" \in DOMAIN d
           THEN Some(InstallParams_init(d["install_params"], id, None))
           ELSE None,
       custom_install_url |-> Get(d, "custom_install_url"),
       role_connections_verification_url |->
           Get(d, "role_connections_verification_url"),
       approximate_guild_count |->
           GetDefault(d, "approximate_guild_count", 0),
       approximate_user_install_count |->
           GetDefault(d, "approximate_user_install_count", 0),
       integration_types_config |->
           AppInfo_integration_types_config(d, id)]

\* a plausible slip: the KeyError is swallowed and an object that holds
\* only what needs no subscript is handed out
AppInfo_init_PartialObject(state, d) ==
    IF ~(AppInfo_required \subseteq DOMAIN d)
    THEN [raised |-> "none",
          obj |-> Some([_state |-> state,
                        _summary |-> GetDefault(d, "summary", ""),
                        install_params |-> None,
                        integration_types_config |-> <<>>])]
    ELSE [raised |-> "none", obj |-> Some(AppInfo_attributes(state, d))]

\* AppInfo.__init__(state, data): the object, or the exception that left it
AppInfo_init(state, d) ==
    IF ~(AppInfo_required \subseteq DOMAIN d)
    THEN [raised |-> "KeyError", obj |-> None]
    ELSE [raised |-> "none", obj |-> Some(AppInfo_attributes(state, d))]

\* a plausible slip: warn only on the first read
AppInfo_summary_WarnOnce(self, count) ==
    [value |-> self._summary,
     warned |-> IF count = 0 THEN warn_deprecated(count) ELSE count]

\* AppInfo.summary: warn, then return self._summary
AppInfo_summary(self, count) ==
    [value |-> self._summary, warned |-> warn_deprecated(count)]

(****************************** PartialAppInfo *****************************)
\* the keys PartialAppInfo.__init__ reads with data[key]
PartialAppInfo_required == {"id", "name", "description", "verify_key"}

\* PartialAppInfo.__init__(state=, data=)
PartialAppInfo_init(state, d) ==
    IF ~(PartialAppInfo_required \subseteq DOMAIN d)
    THEN [raised |-> "KeyError", obj |-> None]
    ELSE [raised |-> "none",
          obj |-> Some(
            [_state |-> state,
             id |-> ParseInt(d["id"]),
             name |-> d["name"],
             _icon |-> Get(d, "icon"),
             description |-> d["description"],
             rpc_origins |-> Get(d, "rpc_origins"),
             _summary |-> GetDefault(d, "summary", ""),
             verify_key |-> d["verify_key"],
             terms_of_service_url |-> Get(d, "terms_of_service_url"),
             privacy_policy_url |-> Get(d, "privacy_policy_url")])]

\* PartialAppInfo.summary: warn, then return self._summary
PartialAppInfo_summary(self, count) ==
    [value |-> self._summary, warned |-> warn_deprecated(count)]

(************************** payloads (inputs) ******************************)
\* a payload that carries every key of the AppInfo schema
SamplePayload ==
    [id |-> <<"4", "2">>,
     name |-> "app",
     description |-> "desc",
     icon |-> Some("iconhash"),
     rpc_origins |-> <<"https://rpc">>,
     bot_public |-> TRUE,
     bot_require_code_grant |-> FALSE,
     owner |-> [id |-> <<"1">>],
     verify_key |-> "key",
     team |-> Some([id |-> <<"3">>]),
     summary |-> "blurb",
     guild_id |-> Some(<<"0", "5">>),
     primary_sku_id |-> Some(<<"6">>),
     slug |-> Some("slug"),
     cover_image |-> Some("coverhash"),
     terms_of_service_url |-> Some("https://tos"),
     privacy_policy_url |-> Some("https://pp"),
     flags |-> Some(5),
     tags |-> Some(<<"tag">>),
     install_params |-> [scopes |-> <<"bot", "applications.commands">>,
                         permissions |-> <<"8">>],
     custom_install_url |-> Some("https://install"),
     role_connections_verification_url |-> Some("https://verify"),
     approximate_guild_count |-> 3,
     approximate_user_install_count |-> 4,
     integration_types_config |->
         Some(<<[key |-> <<"0">>,
                 value |-> Some([oauth2_install_params |->
                              Some([scopes |-> <<"bot">>,
                                    permissions |-> <<"2", "0", "4", "8">>])])],
                [key |-> <<"1">>, value |-> None]>>)]

\* the fields the platform may leave out of an AppInfo payload
OptionalFields ==
    {"team", "summary", "guild_id", "primary_sku_id", "slug", "cover_image",
     "terms_of_service_url", "privacy_policy_url", "flags", "tags",
     "install_params", "custom_install_url",
     "role_connections_verification_url", "approximate_guild_count",
     "approximate_user_install_count", "integration_types_config"}

RequiredFields == DOMAIN SamplePayload \ OptionalFields

\* the fields of a PartialAppInfo payload
PartialFields ==
    {"id", "name", "description", "verify_key", "icon", "rpc_origins",
     "summary", "terms_of_service_url", "privacy_policy_url"}

IdStrs == {<<"7">>, <<"0", "7">>, <<"4", "2">>}

ScopeLists ==
    {<<>>, <<"bot">>, <<"bot", "applications.commands">>,
     <<"applications.commands", "bot", "identify">>}

PermStrs == {<<"0">>, <<"8">>, <<"2", "0", "4", "8">>}

InstallParamsPayloads ==
    {[scopes |-> s, permissions |-> p] : s \in ScopeLists, p \in PermStrs}

\* integration-type keys as they arrive: stringified small integers
ItcKeys == {<<"0">>, <<"1">>, <<"0", "1">>}

\* configuration payloads of one integration type, null included
ItcValues ==
    {None, Some(<<>>), Some([oauth2_install_params |-> None]),
     Some([oauth2_install_params |->
              Some([scopes |-> <<"bot">>, permissions |-> <<"8">>])]),
     Some([oauth2_install_params |->
              Some([scopes |-> <<"applications.commands", "identify">>,
                    permissions |-> <<"0">>])])}

\* integration_types_config payloads: dicts of at most MaxItc entries
ItcPayloads ==
    {s \in UNION {[1..n -> [key : ItcKeys, value : ItcValues]] : n \in 0..MaxItc} :
        \A i, j \in 1..Len(s) : i # j => s[i].key # s[j].key}

\* every subset of the optional fields left out
PayloadsOptional ==
    {Restrict(SamplePayload, RequiredFields \cup S) : S \in SUBSET OptionalFields}

\* every subset of the required fields left out
PayloadsMissing ==
    {Restrict(SamplePayload, (RequiredFields \ M) \cup S) :
        M \in SUBSET RequiredFields, S \in {{}, {"slug", "install_params"}}}

\* ids and install parameters varied
PayloadsInstall ==
    {[id |-> i, install_params |-> ip] @@ Restrict(SamplePayload, RequiredFields) :
        i \in IdStrs, ip \in InstallParamsPayloads}

\* nullable fields sent as null, zero or empty
PayloadsNull ==
    {t @@ f @@ g @@ s @@ Restrict(SamplePayload, RequiredFields) :
        t \in {<<>>, [team |-> None], [team |-> Some(<<>>)]},
        f \in {<<>>, [flags |-> None], [flags |-> Some(0)]},
        g \in {<<>>, [guild_id |-> None], [integration_types_config |-> None]},
        s \in {<<>>, [summary |-> ""], [icon |-> None]}}

\* integration-type configurations varied
PayloadsItc ==
    {[id |-> i, integration_types_config |-> Some(c)]
        @@ Restrict(SamplePayload, RequiredFields) :
        i \in {<<"7">>, <<"4", "2">>}, c \in ItcPayloads}

AppInfoPayloads ==
    PayloadsOptional \cup PayloadsMissing \cup PayloadsInstall
        \cup PayloadsNull \cup PayloadsItc

PartialAppInfoPayloads ==
    {[id |-> i] @@ Restrict(SamplePayload, S) :
        i \in IdStrs, S \in SUBSET PartialFields}

(*************************** ModalInteraction ******************************)
\* ComponentType.text_input.value, read into text_input_type
text_input_type == 4

\* Message(state=, channel=, data=)
Message(state, payload) == [_state |-> state, payload |-> payload]

\* a plausible slip: the rows are validated, and those without a type or
\* without components are dropped
ModalInteractionData_init_Validated(d) ==
    IF ~({"custom_id", "components"} \subseteq DOMAIN d)
    THEN [raised |-> "KeyError", obj |-> None]
    ELSE [raised |-> "none",
          obj |-> Some([dict |-> d,
                        custom_id |-> d["custom_id"],
                        components |->
                            SelectSeq(d["components"],
                                LAMBDA row : {"type", "components"}
                                                 \subseteq DOMAIN row)])]

\* ModalInteractionData.__init__(data=): the dict copy and the two
\* attributes, or the KeyError of a missing key
ModalInteractionData_init(d) ==
    IF ~({"custom_id", "components"} \subseteq DOMAIN d)
    THEN [raised |-> "KeyError", obj |-> None]
    ELSE [raised |-> "none",
          obj |-> Some([dict |-> d,
                        custom_id |-> d["custom_id"],
                        components |-> d["components"]])]

\* ModalInteraction.__init__(data=, state=); the envelope fields set by the
\* base class are left out; the _cs_text_values slot starts unset (None)
ModalInteraction_init(state, d) ==
    LET inner == ModalInteractionData_init(d["data"])
        message_data == Get(d, "message")
    IN IF inner.raised # "none"
       THEN [raised |-> inner.raised, obj |-> None]
       ELSE [raised |-> "none",
             obj |-> Some([data |-> inner.obj[1],
                           message |-> IF TruthyDict(message_data)
                                       THEN Some(Message(state, message_data[1]))
                                       ELSE None,
                           _cs_text_values |-> None])]

\* the generator object walk_raw_components() returns: nothing has run yet
walk_raw_components(self) ==
    [row |-> 0, idx |-> 0, yielded |-> <<>>, state |-> "running"]

\* a plausible slip: the inner iteration starts one element late
RECURSIVE walk_raw_components_next_SkipFirst(_, _)
walk_raw_components_next_SkipFirst(self, g) ==
    LET rows == self.data.components
    IN IF g.row >= 1 /\ g.idx < Len(rows[g.row]["components"])
       THEN [g EXCEPT !.idx = @ + 1,
                      !.yielded = Append(@, rows[g.row]["components"][g.idx + 1])]
       ELSE IF g.row >= Len(rows)
       THEN [g EXCEPT !.state = "done"]
       ELSE IF "components" \notin DOMAIN rows[g.row + 1]
       THEN [g EXCEPT !.state = "error"]
       ELSE walk_raw_components_next_SkipFirst(self,
                [g EXCEPT !.row = @ + 1, !.idx = 1])

\* next() on that generator: yield the next component of the current row, or
\* move to the next row (KeyError if it has no "components"), or stop
RECURSIVE walk_raw_components_next(_, _)
walk_raw_components_next(self, g) ==
    LET rows == self.data.components
    IN IF g.row >= 1 /\ g.idx < Len(rows[g.row]["components"])
       THEN [g EXCEPT !.idx = @ + 1,
                      !.yielded = Append(@, rows[g.row]["components"][g.idx + 1])]
       ELSE IF g.row >= Len(rows)
       THEN [g EXCEPT !.state = "done"]
       ELSE IF "components" \notin DOMAIN rows[g.row + 1]
       THEN [g EXCEPT !.state = "error"]
       ELSE walk_raw_components_next(self, [g EXCEPT !.row = @ + 1, !.idx = 0])

\* a for loop over the generator: next() until it stops or raises
RECURSIVE Exhaust(_, _)
Exhaust(self, g) ==
    IF g.state # "running" THEN g
    ELSE Exhaust(self, walk_raw_components_next(self, g))

\* component.get("value") or ""
ValueOrEmpty(component) ==
    LET v == Get(component, "value")
    IN IF v = None \/ v[1] = "" THEN "" ELSE v[1]

\* the dict comprehension over the yielded components: a later component
\* overwrites an equal key, component["custom_id"] raises KeyError
RECURSIVE text_values_fill(_, _)
text_values_fill(components, acc) ==
    IF Len(components) = 0 THEN [raised |-> "none", val |-> acc]
    ELSE LET component == Head(components)
         IN IF "type" \in DOMAIN component /\ component["type"] = text_input_type
            THEN IF "custom_id" \notin DOMAIN component
                 THEN [raised |-> "KeyError", val |-> <<>>]
                 ELSE text_values_fill(Tail(components),
                          (component["custom_id"] :> ValueOrEmpty(component)) @@ acc)
            ELSE text_values_fill(Tail(components), acc)

\* a plausible slip: the filter on the component type is missing
RECURSIVE text_values_fill_NoFilter(_, _)
text_values_fill_NoFilter(components, acc) ==
    IF Len(components) = 0 THEN [raised |-> "none", val |-> acc]
    ELSE LET component == Head(components)
         IN IF "custom_id" \notin DOMAIN component
            THEN [raised |-> "KeyError", val |-> <<>>]
            ELSE text_values_fill_NoFilter(Tail(components),
                     (component["custom_id"] :> ValueOrEmpty(component)) @@ acc)

text_values_body_NoFilter(self) ==
    LET g == Exhaust(self, walk_raw_components(self))
        filled == text_values_fill_NoFilter(g.yielded, <<>>)
    IN IF filled.raised # "none" THEN filled
       ELSE IF g.state = "error" THEN [raised |-> "KeyError", val |-> <<>>]
       ELSE filled

\* the body of ModalInteraction.text_values: the mapping, or the exception
text_values_body(self) ==
    LET g == Exhaust(self, walk_raw_components(self))
        filled == text_values_fill(g.yielded, <<>>)
    IN IF filled.raised # "none" THEN filled
       ELSE IF g.state = "error" THEN [raised |-> "KeyError", val |-> <<>>]
       ELSE filled

\* cached_slot_property(name).__get__: return the slot if it is set, else
\* call the function, store its result in the slot and return it.  oid is
\* the identity of the object the function would build.
CachedSlotProperty_get(self, name, computed, oid) ==
    IF self[name] # None
    THEN [self |-> self, raised |-> "none", ret |-> self[name], called |-> FALSE]
    ELSE IF computed.raised # "none"
    THEN [self |-> self, raised |-> computed.raised, ret |-> None, called |-> TRUE]
    ELSE LET value == [oid |-> oid, val |-> computed.val]
         IN [self |-> [self EXCEPT ![name] = Some(value)],
             raised |-> "none", ret |-> Some(value), called |-> TRUE]

\* a plausible slip: a plain @property, evaluated at every read
ModalInteraction_text_values_Uncached(self, oid) ==
    LET computed == text_values_body(self)
    IN IF computed.raised # "none"
       THEN [self |-> self, raised |-> computed.raised, ret |-> None, called |-> TRUE]
       ELSE [self |-> self, raised |-> "none",
             ret |-> Some([oid |-> oid, val |-> computed.val]), called |-> TRUE]

\* one read of ModalInteraction.text_values, the decorated property
ModalInteraction_text_values(self, oid) ==
    CachedSlotProperty_get(self, "_cs_text_values", text_values_body(self), oid)

(*********************** modal payloads (inputs) ***************************)
TextBioHello == [type |-> 4, custom_id |-> "bio", value |-> Some("hello")]
TextBioNull == [type |-> 4, custom_id |-> "bio", value |-> None]
TextAgeNoValue == [type |-> 4, custom_id |-> "age"]
TextAgeEmpty == [type |-> 4, custom_id |-> "age", value |-> Some("")]
SelectIgnored == [type |-> 3, custom_id |-> "ignored"]
UntypedBio == [custom_id |-> "bio", value |-> Some("typed")]
TextNoCustomId == [type |-> 4, value |-> Some("hello")]
UnknownType == [type |-> 99, custom_id |-> "mystery"]

\* action rows as they may arrive, the malformed ones included
RowPool ==
    {[type |-> 1, components |-> <<>>],
     [type |-> 1, components |-> <<TextBioHello>>],
     [type |-> 1, components |-> <<TextBioHello, SelectIgnored>>],
     [type |-> 1, components |-> <<TextBioNull, TextAgeNoValue>>],
     [type |-> 1, components |-> <<UntypedBio, TextAgeEmpty>>],
     [type |-> 1, components |-> <<SelectIgnored, TextAgeNoValue, TextBioHello>>],
     [components |-> <<TextNoCustomId>>],
     [type |-> 99, components |-> <<UnknownType>>],
     [type |-> 1]}

RowLists == UNION {[1..n -> RowPool] : n \in 0..MaxRows}

ModalDataPayloads ==
    {[custom_id |-> "profile", components |-> rows] : rows \in RowLists}
        \cup {[custom_id |-> "profile"],
              [components |-> <<[type |-> 1, components |-> <<TextBioHello>>]>>],
              [id |-> <<"9">>]}

ModalPayloads ==
    {[data |-> d] : d \in ModalDataPayloads}
        \cup {[data |-> [custom_id |-> "profile", components |-> <<>>],
               message |-> m] : m \in {None, Some([id |-> <<"5">>])}}

Readers == 1..MaxReaders

(**************************** modal actions ********************************)
ModalInit ==
    /\ mdata = <<>>
    /\ modal = None
    /\ mraised = "none"
    /\ gens = <<>>
    /\ treads = <<>>
    /\ built = 0
    /\ writes = 0
    /\ rd = [r \in Readers |-> [pc |-> "ready", value |-> None,
                                raised |-> "none", ret |-> None]]

\* ModalInteraction(data=data, state=state)
ConstructModal ==
    /\ mdata = <<>>
    /\ \E d \in ModalPayloads :
          LET r == ModalInteraction_init("state", d)
          IN /\ mdata' = d
             /\ modal' = r.obj
             /\ mraised' = r.raised
    /\ UNCHANGED <<gens, treads, built, writes, rd>>
    /\ UNCHANGED appVars

\* modal.walk_raw_components(): a new generator
CallWalk ==
    /\ modal # None
    /\ Len(gens) < MaxGens
    /\ gens' = Append(gens, walk_raw_components(modal[1]))
    /\ UNCHANGED <<mdata, modal, mraised, treads, built, writes, rd>>
    /\ UNCHANGED appVars

\* next(g) on one of the generators
NextWalk ==
    /\ modal # None
    /\ \E i \in 1..Len(gens) :
          /\ gens[i].state = "running"
          /\ gens' = [gens EXCEPT ![i] = walk_raw_components_next(modal[1], @)]
    /\ UNCHANGED <<mdata, modal, mraised, treads, built, writes, rd>>
    /\ UNCHANGED appVars

\* modal.text_values, read from a single execution context
ReadTextValues ==
    /\ modal # None
    /\ Len(treads) < MaxTextReads
    /\ LET r == ModalInteraction_text_values(modal[1], built + 1)
       IN /\ modal' = Some(r.self)
          /\ treads' = Append(treads, [raised |-> r.raised, ret |-> r.ret])
          /\ built' = IF r.called /\ r.raised = "none" THEN built + 1 ELSE built
          /\ writes' = IF r.self # modal[1] THEN writes + 1 ELSE writes
    /\ UNCHANGED <<mdata, mraised, gens, rd>>
    /\ UNCHANGED appVars

\* a concurrent reader enters __get__: the slot is read
ReaderCheck(r) ==
    /\ modal # None
    /\ rd[r].pc = "ready"
    /\ rd' = [rd EXCEPT ![r] =
                IF modal[1]._cs_text_values # None
                THEN [@ EXCEPT !.pc = "done", !.ret = modal[1]._cs_text_values]
                ELSE [@ EXCEPT !.pc = "compute"]]
    /\ UNCHANGED <<mdata, modal, mraised, gens, treads, built, writes>>
    /\ UNCHANGED appVars

\* the reader found the slot unset and evaluates the function
ReaderCompute(r) ==
    /\ modal # None
    /\ rd[r].pc = "compute"
    /\ LET computed == text_values_body(modal[1])
       IN IF computed.raised # "none"
          THEN /\ rd' = [rd EXCEPT ![r] = [@ EXCEPT !.pc = "done",
                                                    !.raised = computed.raised]]
               /\ built' = built
          ELSE /\ rd' = [rd EXCEPT ![r] = [@ EXCEPT !.pc = "store",
                             !.value = Some([oid |-> built + 1, val |-> computed.val])]]
               /\ built' = built + 1
    /\ UNCHANGED <<mdata, modal, mraised, gens, treads, writes>>
    /\ UNCHANGED appVars

\* the reader stores what it computed in the slot and returns it
ReaderStore(r) ==
    /\ modal # None
    /\ rd[r].pc = "store"
    /\ modal' = Some([modal[1] EXCEPT !._cs_text_values = rd[r].value])
    /\ writes' = writes + 1
    /\ rd' = [rd EXCEPT ![r] = [@ EXCEPT !.pc = "done", !.ret = rd[r].value]]
    /\ UNCHANGED <<mdata, mraised, gens, treads, built>>
    /\ UNCHANGED appVars

(******************************* actions ***********************************)
AppInit ==
    /\ data = <<>>
    /\ cls = "none"
    /\ app = None
    /\ raised = "none"
    /\ warned = 0
    /\ reads = <<>>
    /\ url = None
    /\ iturl = <<>>

\* AppInfo(state, data)
ConstructAppInfo ==
    /\ cls = "none"
    /\ \E d \in AppInfoPayloads :
          LET r == AppInfo_init("state", d)
          IN /\ data' = d
             /\ cls' = "AppInfo"
             /\ app' = r.obj
             /\ raised' = r.raised
    /\ UNCHANGED <<warned, reads, url, iturl>>
    /\ UNCHANGED modalVars

\* PartialAppInfo(state=state, data=data)
ConstructPartialAppInfo ==
    /\ cls = "none"
    /\ \E d \in PartialAppInfoPayloads :
          LET r == PartialAppInfo_init("state", d)
          IN /\ data' = d
             /\ cls' = "PartialAppInfo"
             /\ app' = r.obj
             /\ raised' = r.raised
    /\ UNCHANGED <<warned, reads, url, iturl>>
    /\ UNCHANGED modalVars

\* app.summary on an AppInfo
ReadSummary ==
    /\ cls = "AppInfo"
    /\ app # None
    /\ Len(reads) < MaxReads
    /\ LET r == AppInfo_summary(app[1], warned)
       IN /\ reads' = Append(reads, r.value)
          /\ warned' = r.warned
    /\ UNCHANGED <<data, cls, app, raised, url, iturl>>
    /\ UNCHANGED modalVars

\* app.summary on a PartialAppInfo
ReadPartialSummary ==
    /\ cls = "PartialAppInfo"
    /\ app # None
    /\ Len(reads) < MaxReads
    /\ LET r == PartialAppInfo_summary(app[1], warned)
       IN /\ reads' = Append(reads, r.value)
          /\ warned' = r.warned
    /\ UNCHANGED <<data, cls, app, raised, url, iturl>>
    /\ UNCHANGED modalVars

\* app.install_params.to_url()
ToUrl ==
    /\ cls = "AppInfo"
    /\ app # None
    /\ app[1].install_params # None
    /\ url = None
    /\ url' = Some(InstallParams_to_url(app[1].install_params[1]))
    /\ UNCHANGED <<data, cls, app, raised, warned, reads, iturl>>
    /\ UNCHANGED modalVars

\* app.integration_types_config[k].install_params.to_url()
ToUrlIntegration ==
    /\ cls = "AppInfo"
    /\ app # None
    /\ \E k \in DOMAIN app[1].integration_types_config \ DOMAIN iturl :
          /\ app[1].integration_types_config[k].install_params # None
          /\ iturl' = (k :> InstallParams_to_url(
                                app[1].integration_types_config[k].install_params[1]))
                          @@ iturl
    /\ UNCHANGED <<data, cls, app, raised, warned, reads, url>>
    /\ UNCHANGED modalVars

Init == AppInit /\ ModalInit

Next ==
    \/ ConstructAppInfo
    \/ ConstructPartialAppInfo
    \/ ReadSummary
    \/ ReadPartialSummary
    \/ ToUrl

Spec == Init /\ [][Next]_vars

NextInstall ==
    \/ ConstructAppInfo
    \/ ToUrl
    \/ ToUrlIntegration

\* one AppInfo whose install parameters are turned into invite URLs
SpecInstall == Init /\ [][NextInstall]_vars

NextModal ==
    \/ ConstructModal
    \/ ReadTextValues

\* one ModalInteraction whose text_values is read from a single execution
\* context
SpecModal == Init /\ [][NextModal]_vars

NextWalking ==
    \/ ConstructModal
    \/ CallWalk
    \/ NextWalk

\* one ModalInteraction whose components are walked by several generators
SpecWalk == Init /\ [][NextWalking]_vars

NextConc ==
    \/ ConstructModal
    \/ \E r \in Readers : ReaderCheck(r)
    \/ \E r \in Readers : ReaderCompute(r)
    \/ \E r \in Readers : ReaderStore(r)

\* one ModalInteraction whose text_values is read by several execution
\* contexts, with no lock
SpecConc == Init /\ [][NextConc]_vars

(************************* properties: AppInfo *****************************)
\* part occurs in whole as a contiguous run of tokens
Contains(whole, part) ==
    \E i \in 0..(Len(whole) - Len(part)) :
        SubSeq(whole, i + 1, i + Len(part)) = part

\* the elements of part occur in whole, in the order of part
RECURSIVE InOrder(_, _)
InOrder(part, whole) ==
    IF Len(part) = 0 THEN TRUE
    ELSE IF Len(whole) = 0 THEN FALSE
    ELSE IF Head(part) = Head(whole) THEN InOrder(Tail(part), Tail(whole))
    ELSE InOrder(part, Tail(whole))

\* the entries of the integration_types_config payload, in order
ItcItems ==
    IF Get(data, "integration_types_config") = None THEN <<>>
    ELSE data["integration_types_config"][1]

\* the last entry of the payload whose key parses to the integer k
LastEntry(k) ==
    LET hits == {i \in 1..Len(ItcItems) : ParseInt(ItcItems[i].key) = k}
    IN ItcItems[CHOOSE i \in hits : \A j \in hits : j <= i]

\* C1: whenever install_params.to_url() has returned on an AppInfo built
\* from a payload with install_params, the URL contains the decimal
\* application id, every scope of the payload in the payload's order, and
\* the decimal value of the payload's permissions.
C1_ToUrlEmbedsIdScopesPermissions ==
    (cls = "AppInfo" /\ url # None) =>
        /\ app[1].id = ParseInt(data["id"])
        /\ Contains(url[1], ToDec(app[1].id))
        /\ InOrder(data["install_params"].scopes, url[1])
        /\ Contains(url[1], ToDec(ParseInt(data["install_params"].permissions)))

C1_Witness ==
    /\ cls = "AppInfo"
    /\ url # None
    /\ data["id"] = <<"0", "7">>
    /\ Len(data["install_params"].scopes) = 3
    /\ data["install_params"].permissions = <<"2", "0", "4", "8">>

\* C6: an AppInfo payload that lacks id, name, description, icon or
\* verify_key makes the constructor raise KeyError and yields no object;
\* a PartialAppInfo payload does so when it lacks id, name, description or
\* verify_key, and only then (icon may be missing).
C6_MissingRequiredKeyRaises ==
    /\ (cls = "AppInfo" /\
        ~({"id", "name", "description", "icon", "verify_key"} \subseteq DOMAIN data))
          => (raised = "KeyError" /\ app = None)
    /\ cls = "PartialAppInfo" =>
          IF {"id", "name", "description", "verify_key"} \subseteq DOMAIN data
          THEN raised = "none" /\ app # None
          ELSE raised = "KeyError" /\ app = None

C6_Witness ==
    /\ cls = "AppInfo"
    /\ DOMAIN data = RequiredFields \ {"icon"}
    /\ raised = "KeyError"
    /\ app = None

\* the attribute that holds an optional field, and its documented default
AttrOf(field) ==
    CASE field = "summary" -> "_summary"
      [] field = "cover_image" -> "_cover_image"
      [] OTHER -> field

IsDefault(field, value) ==
    CASE field = "summary" -> value = ""
      [] field \in {"approximate_guild_count", "approximate_user_install_count"}
            -> value = 0
      [] field = "integration_types_config" -> DOMAIN value = {}
      [] OTHER -> value = None

\* C7: an AppInfo payload with every required field constructs whatever
\* subset of the optional fields it omits, and each omitted field's
\* attribute holds its default: None, "", 0 or the empty mapping.
C7_OmittedOptionalDefaults ==
    (cls = "AppInfo" /\ RequiredFields \subseteq DOMAIN data) =>
        /\ raised = "none"
        /\ app # None
        /\ \A f \in OptionalFields \ DOMAIN data :
              IsDefault(f, app[1][AttrOf(f)])

C7_Witness ==
    /\ cls = "AppInfo"
    /\ DOMAIN data = RequiredFields \cup {"tags", "slug"}
    /\ app # None

\* C8: the keys of AppInfo.integration_types_config are exactly the integer
\* values of the payload's keys; each holds the configuration built from
\* that key's payload value, from the empty sub-payload when the value is
\* null; an absent or null integration_types_config gives the empty mapping.
C8_IntegrationTypesConfigKeys ==
    (cls = "AppInfo" /\ app # None) =>
        LET cfg == app[1].integration_types_config
        IN /\ DOMAIN cfg = {ParseInt(ItcItems[i].key) : i \in 1..Len(ItcItems)}
           /\ \A k \in DOMAIN cfg :
                LET v == LastEntry(k).value
                IN cfg[k] = IntegrationTypeConfiguration_init(
                                IF v = None THEN <<>> ELSE v[1], app[1].id, k)
           /\ Get(data, "integration_types_config") = None => DOMAIN cfg = {}

C8_Witness ==
    /\ cls = "AppInfo"
    /\ app # None
    /\ Len(ItcItems) = 2
    /\ ItcItems[1].key = <<"0", "1">>
    /\ ItcItems[1].value = None
    /\ ItcItems[2].value # None
    /\ DOMAIN app[1].integration_types_config = {0, 1}

\* C9: an integration-type entry whose oauth2_install_params is null or
\* absent has install_params = None; one whose oauth2_install_params is an
\* install-parameter payload has the InstallParams built from that payload.
C9_NullInstallParamsIsNone ==
    (cls = "AppInfo" /\ app # None) =>
        \A k \in DOMAIN app[1].integration_types_config :
            LET v == LastEntry(k).value
                conf == IF v = None THEN <<>> ELSE v[1]
                oip == Get(conf, "oauth2_install_params")
                got == app[1].integration_types_config[k].install_params
            IN IF oip = None
               THEN got = None
               ELSE /\ got # None
                    /\ got[1].scopes = oip[1].scopes
                    /\ got[1].permissions.value = ParseInt(oip[1].permissions)

C9_Witness ==
    /\ cls = "AppInfo"
    /\ app # None
    /\ DOMAIN app[1].integration_types_config = {0, 1}
    /\ app[1].integration_types_config[0].install_params = None
    /\ app[1].integration_types_config[1].install_params # None
    /\ \E i \in 1..Len(ItcItems) :
          /\ ItcItems[i].value # None
          /\ "oauth2_install_params" \in DOMAIN ItcItems[i].value[1]
          /\ ItcItems[i].value[1]["oauth2_install_params"] = None

\* C10: every read of summary emits exactly one more warning, changes
\* neither the object nor the outcome of construction, and returns the
\* payload's summary ("" when the payload has none), so a read returns the
\* same string as the read before it.
C10_SummaryWarnsEveryRead ==
    [][Len(reads') = Len(reads) + 1 =>
          /\ warned' = warned + 1
          /\ app' = app
          /\ raised' = raised
          /\ reads'[Len(reads')] = GetDefault(data, "summary", "")
          /\ Len(reads) > 0 => reads'[Len(reads')] = reads[Len(reads)]]_vars

C10_Witness ==
    /\ cls = "AppInfo"
    /\ Len(reads) = 2
    /\ warned = 2
    /\ reads = <<"blurb", "blurb">>

(******************** properties: ModalInteraction *************************)
\* every action row carries its list of components
RowsWellFormed ==
    \A i \in 1..Len(modal[1].data.components) :
        "components" \in DOMAIN modal[1].data.components[i]

\* the components of all rows, rows in payload order, each row's components
\* in their order within the row
RECURSIVE Concat(_)
Concat(rows) ==
    IF Len(rows) = 0 THEN <<>>
    ELSE rows[1]["components"] \o Concat(Tail(rows))

AllComponents == Concat(modal[1].data.components)

\* positions of the text inputs among all components
TextInputs ==
    {i \in 1..Len(AllComponents) :
        "type" \in DOMAIN AllComponents[i] /\ AllComponents[i]["type"] = 4}

\* every text input names its custom_id
TextInputsKeyed ==
    \A i \in TextInputs : "custom_id" \in DOMAIN AllComponents[i]

\* val is the mapping custom_id -> submitted value over the text inputs, ""
\* standing for a null or missing value (the last of equal custom ids wins)
IsTextMapping(val) ==
    /\ DOMAIN val = {AllComponents[i]["custom_id"] : i \in TextInputs}
    /\ \A k \in DOMAIN val :
          LET hits == {i \in TextInputs : AllComponents[i]["custom_id"] = k}
              c == AllComponents[CHOOSE i \in hits : \A j \in hits : j <= i]
          IN val[k] = IF "value" \in DOMAIN c /\ c["value"] # None
                      THEN c["value"][1] ELSE ""

\* C2: every mapping a read of text_values returns is exactly custom_id ->
\* value over the components of type 4; other or untyped components give no
\* key, a null or missing value gives ""; and the read does return one
\* whenever the rows are well formed and every text input has a custom_id.
C2_TextValuesIsTextInputMapping ==
    modal # None =>
        /\ \A i \in 1..Len(treads) :
              treads[i].raised = "none" =>
                  /\ RowsWellFormed
                  /\ TextInputsKeyed
                  /\ IsTextMapping(treads[i].ret[1].val)
        /\ (RowsWellFormed /\ TextInputsKeyed) =>
              \A i \in 1..Len(treads) : treads[i].raised = "none"

C2_Witness ==
    /\ modal # None
    /\ modal[1].data.custom_id = "profile"
    /\ modal[1].data.components =
          <<[type |-> 1, components |->
                <<[type |-> 4, custom_id |-> "bio", value |-> Some("hello")],
                  [type |-> 3, custom_id |-> "ignored"]>>]>>
    /\ Len(treads) = 1
    /\ treads[1].raised = "none"
    /\ treads[1].ret[1].val = [bio |-> "hello"]

\* C3: on one object read from a single execution context, the slot is
\* assigned at most once and at most one mapping is ever built; every read
\* that returns, returns the object the first read returned, and that object
\* is the one the slot holds from then on.
C3_TextValuesMemoizedOnce ==
    modal # None =>
        /\ writes <= 1
        /\ built <= 1
        /\ \A i \in 1..Len(treads) :
              treads[i].raised = "none" =>
                  /\ treads[i].ret = treads[1].ret
                  /\ modal[1]._cs_text_values = treads[1].ret
                  /\ writes = 1
        /\ treads = <<>> => (modal[1]._cs_text_values = None /\ writes = 0)

C3_Witness ==
    /\ modal # None
    /\ Len(treads) = 2
    /\ treads[1].raised = "none"
    /\ treads[2].ret = treads[1].ret
    /\ DOMAIN treads[1].ret[1].val = {"bio", "age"}
    /\ writes = 1

\* C4: each generator walk_raw_components() returned has yielded a prefix of
\* the row-major sequence of all components, and the whole of it once it has
\* stopped, whatever the other generators of the same object have consumed.
C4_WalkRowMajorRestartable ==
    (modal # None /\ RowsWellFormed) =>
        \A i \in 1..Len(gens) :
            /\ gens[i].state # "error"
            /\ Len(gens[i].yielded) <= Len(AllComponents)
            /\ gens[i].yielded = SubSeq(AllComponents, 1, Len(gens[i].yielded))
            /\ gens[i].state = "done" => gens[i].yielded = AllComponents

C4_Witness ==
    /\ modal # None
    /\ RowsWellFormed
    /\ Len(modal[1].data.components) = 2
    /\ Len(modal[1].data.components[1]["components"]) = 2
    /\ Len(modal[1].data.components[2]["components"]) = 3
    /\ Len(gens) = 2
    /\ gens[1].state = "running"
    /\ Len(gens[1].yielded) = 1
    /\ gens[2].state = "done"
    /\ gens[2].yielded = AllComponents

\* C5: with several unlocked readers, whatever the interleaving, every
\* mapping a reader received and every mapping the slot holds equals the
\* mapping over the text inputs; and once all readers are through on a
\* well-formed payload each has received one and the slot holds one.
C5_ConcurrentReadsAgree ==
    modal # None =>
        /\ \A r \in Readers :
              rd[r].ret # None => IsTextMapping(rd[r].ret[1].val)
        /\ modal[1]._cs_text_values # None =>
              IsTextMapping(modal[1]._cs_text_values[1].val)
        /\ (RowsWellFormed /\ TextInputsKeyed /\ \A r \in Readers : rd[r].pc = "done")
              => /\ \A r \in Readers : rd[r].ret # None
                 /\ modal[1]._cs_text_values # None

C5_Witness ==
    /\ modal # None
    /\ \A r \in Readers : rd[r].pc = "done" /\ rd[r].ret # None
    /\ writes >= 2
    /\ rd[1].ret[1].oid # rd[2].ret[1].oid
    /\ rd[1].ret[1].val = rd[2].ret[1].val
    /\ DOMAIN rd[1].ret[1].val = {"bio", "age"}

\* a nested entry the platform's schema does not allow: a row without type
\* or components, a row or component of unknown type, a component without
\* type, custom_id or value
MalformedRow(row) ==
    \/ ~({"type", "components"} \subseteq DOMAIN row)
    \/ row["type"] # 1
    \/ \E i \in 1..Len(row["components"]) :
          \/ ~({"type", "custom_id", "value"} \subseteq DOMAIN row["components"][i])
          \/ row["components"][i]["type"] \notin {3, 4}

\* C11: construction raises KeyError and yields no object exactly when the
\* data payload lacks custom_id or components; otherwise it succeeds
\* whatever the nested entries are, and components holds the payload's rows
\* unchanged, then and after every later read of text_values.
C11_OnlyTopLevelKeysValidated ==
    mdata # <<>> =>
        IF {"custom_id", "components"} \subseteq DOMAIN mdata["data"]
        THEN /\ mraised = "none"
             /\ modal # None
             /\ modal[1].data.custom_id = mdata["data"]["custom_id"]
             /\ modal[1].data.components = mdata["data"]["components"]
        ELSE /\ mraised = "KeyError"
             /\ modal = None

C11_Witness ==
    /\ modal # None
    /\ modal[1].data.components =
          <<[components |-> <<[type |-> 4, value |-> Some("hello")]>>],
            [type |-> 99, components |-> <<[type |-> 99, custom_id |-> "mystery"]>>]>>
    /\ \A i \in 1..2 : MalformedRow(modal[1].data.components[i])
    /\ Len(treads) = 1

\* the URL carries the query parameter integration_type
HasIntegrationType(u) == \E i \in 1..Len(u) : u[i] = "&integration_type="

\* the InstallParams objects reachable from the AppInfo
ReachableInstallParams ==
    (IF app[1].install_params = None THEN {} ELSE {app[1].install_params[1]})
        \cup {app[1].integration_types_config[k].install_params[1] :
                k \in {j \in DOMAIN app[1].integration_types_config :
                          app[1].integration_types_config[j].install_params # None}}

\* C12: every InstallParams reachable from an AppInfo has the AppInfo's id
\* as _app_id; the top-level one has no integration type and its URL no
\* integration_type parameter; the one of integration_types_config[k] has
\* integration type k and its URL names the AppInfo's id and ends with the
\* integration_type parameter of value k, for k = 0 as for any other key.
C12_InstallParamsIdAndIntegrationType ==
    (cls = "AppInfo" /\ app # None) =>
        /\ \A ip \in ReachableInstallParams : ip._app_id = ParseInt(data["id"])
        /\ app[1].install_params # None =>
              app[1].install_params[1]._integration_type = None
        /\ \A k \in DOMAIN app[1].integration_types_config :
              app[1].integration_types_config[k].install_params # None =>
                  app[1].integration_types_config[k].install_params[1]._integration_type
                      = Some(k)
        /\ url # None =>
              /\ ~HasIntegrationType(url[1])
              /\ Contains(url[1], <<"https://discord.com/oauth2/authorize?client_id=">>
                                      \o ToDec(ParseInt(data["id"])) \o <<"&scope=">>)
        /\ \A k \in DOMAIN iturl :
              /\ Contains(iturl[k], <<"https://discord.com/oauth2/authorize?client_id=">>
                                        \o ToDec(ParseInt(data["id"])) \o <<"&scope=">>)
              /\ Len(iturl[k]) > Len(ToDec(k))
              /\ SubSeq(iturl[k], Len(iturl[k]) - Len(ToDec(k)), Len(iturl[k]))
                    = <<"&integration_type=">> \o ToDec(k)

C12_Witness ==
    /\ cls = "AppInfo"
    /\ app # None
    /\ url # None
    /\ DOMAIN iturl = {0}
    /\ app[1].integration_types_config[0].install_params[1]._integration_type = Some(0)
    /\ Contains(iturl[0], <<"&integration_type=", "0">>)

\* the URLs of both integration types of one AppInfo have been built
C12_WitnessBothTypes ==
    /\ cls = "AppInfo"
    /\ app # None
    /\ data["id"] = <<"7">>
    /\ DOMAIN iturl = {0, 1}

====
